---- MODULE Spec2Model ----
(***************************************************************************)
(* Model of the Mergington High School activities API (src/src/app.py).    *)
(*                                                                         *)
(* The registry is the module-level dict `activities`.  Three handlers     *)
(* read or change it: get_activities, signup_for_activity and              *)
(* unregister_from_activity.                                               *)
(*                                                                         *)
(* Four specifications are given over the same registry:                   *)
(*   Spec      one call at a time; each handler runs from its first line   *)
(*             to its return as one step, and every call is logged in      *)
(*             `history` with the registry it found and its response;      *)
(*   ConcSpec  the handlers are plain `def` endpoints, which the framework *)
(*             runs on worker threads; each worker runs one request and    *)
(*             may be preempted between the statements of the handler      *)
(*             (the handlers take no lock);                                *)
(*   CapacitySpec  as Spec, from registries in which Basketball Club is    *)
(*             full or one place short of it;                              *)
(*   FixtureSpec  the calls of a test body, wrapped in the reset_activities*)
(*             fixture of src/tests/conftest.py.                           *)
(***************************************************************************)
EXTENDS Integers, Sequences, FiniteSets, TLC

VARIABLES
    activities,   \* the in-memory activity database (app.py:23)
    history,      \* Spec: the calls made so far, oldest first
    pc,           \* ConcSpec: each worker's position in its handler
    req,          \* ConcSpec: the request each worker is serving
    resp,         \* ConcSpec: the response each worker returned
    fixture       \* FixtureSpec: the reset_activities fixture (its position,
                  \* its local original_activities, the keys whose value
                  \* object it shares with the registry)

vars == <<activities, history, pc, req, resp, fixture>>

-----------------------------------------------------------------------------
(* Bounds of the model                                                     *)

\* Spec: number of calls in one history
MaxCalls == 3

\* ConcSpec: number of worker threads, each serving one request
NumThreads == 2

\* activity_name values the callers send: two seeded activities and one
\* name that is not a key of the registry
Names == {"Basketball Club", "Debate Club", "NoSuchClub"}

\* email values the callers send: one seeded in Basketball Club, one seeded
\* in Debate Club, one seeded nowhere
Emails == {"alex@mergington.edu", "isabella@mergington.edu", "new@x.edu"}

Threads == 1..NumThreads

\* placeholder for the arguments of a call that takes none
NoArg == "-"

\* no test is running: the fixture has not been entered
NoFixture ==
    [phase |-> "not_started", original_activities |-> << >>, shared |-> {}]

-----------------------------------------------------------------------------
(* The seed data, app.py:23-78                                             *)

SeedActivities ==
    [n \in {"Basketball Club", "Tennis Team", "Debate Club", "Robotics Team",
            "Art Studio", "Drama Club", "Chess Club", "Programming Class",
            "Gym Class"} |->
      CASE n = "Basketball Club" ->
             [description |-> "Team basketball practice and games",
              schedule |-> "Mondays and Wednesdays, 4:00 PM - 5:30 PM",
              max_participants |-> 15,
              participants |-> <<"alex@mergington.edu">>]
        [] n = "Tennis Team" ->
             [description |-> "Tennis training and tournament participation",
              schedule |-> "Tuesdays and Thursdays, 3:30 PM - 5:00 PM",
              max_participants |-> 16,
              participants |-> <<"chris@mergington.edu">>]
        [] n = "Debate Club" ->
             [description |-> "Develop public speaking and critical thinking skills",
              schedule |-> "Wednesdays, 3:30 PM - 5:00 PM",
              max_participants |-> 25,
              participants |-> <<"isabella@mergington.edu", "lucas@mergington.edu">>]
        [] n = "Robotics Team" ->
             [description |-> "Build and program robots for competitions",
              schedule |-> "Thursdays and Fridays, 4:00 PM - 6:00 PM",
              max_participants |-> 18,
              participants |-> <<"ryan@mergington.edu">>]
        [] n = "Art Studio" ->
             [description |-> "Painting, drawing, and sculpture techniques",
              schedule |-> "Mondays and Thursdays, 3:30 PM - 5:00 PM",
              max_participants |-> 20,
              participants |-> <<"maya@mergington.edu", "ava@mergington.edu">>]
        [] n = "Drama Club" ->
             [description |-> "Theater performance and acting classes",
              schedule |-> "Tuesdays and Thursdays, 4:30 PM - 6:00 PM",
              max_participants |-> 22,
              participants |-> <<"noah@mergington.edu">>]
        [] n = "Chess Club" ->
             [description |-> "Learn strategies and compete in chess tournaments",
              schedule |-> "Fridays, 3:30 PM - 5:00 PM",
              max_participants |-> 12,
              participants |-> <<"michael@mergington.edu", "daniel@mergington.edu">>]
        [] n = "Programming Class" ->
             [description |-> "Learn programming fundamentals and build software projects",
              schedule |-> "Tuesdays and Thursdays, 3:30 PM - 4:30 PM",
              max_participants |-> 20,
              participants |-> <<"emma@mergington.edu", "sophia@mergington.edu">>]
        [] n = "Gym Class" ->
             [description |-> "Physical education and sports activities",
              schedule |-> "Mondays, Wednesdays, Fridays, 2:00 PM - 3:00 PM",
              max_participants |-> 30,
              participants |-> <<"john@mergington.edu", "olivia@mergington.edu">>]]

-----------------------------------------------------------------------------
(* Python list operations used by the handlers                             *)

\* `x in lst`
ListContains(lst, x) == \E i \in 1..Len(lst) : lst[i] = x

\* index of the first occurrence of x in lst (lst must contain x)
FirstIndex(lst, x) ==
    CHOOSE i \in 1..Len(lst) : lst[i] = x /\ \A j \in 1..(i - 1) : lst[j] # x

\* `lst.pop()`: the newest entry goes, whatever x is
ListRemoveNewest(lst, x) == SubSeq(lst, 1, Len(lst) - 1)

\* `lst.remove(x)` on a list that contains x: the first occurrence goes,
\* the rest keeps its order
ListRemove(lst, x) ==
    LET i == FirstIndex(lst, x)
    IN  SubSeq(lst, 1, i - 1) \o SubSeq(lst, i + 1, Len(lst))

\* `lst.insert(0, x)`: the new entry goes to the front
ListPrepend(lst, x) == <<x>> \o lst

\* `lst.append(x)`
ListAppend(lst, x) == Append(lst, x)

-----------------------------------------------------------------------------
(* Responses.  A text is kept as its sequence of words, so that "the       *)
(* message contains ..." is a property of the text and not of a label.     *)

\* raise HTTPException(status_code=..., detail=...)
HTTPException(status_code, detail) ==
    [status |-> status_code, kind |-> "detail", payload |-> detail]

\* return {"message": ...}
MessageResponse(words) ==
    [status |-> 200, kind |-> "message", payload |-> words]

\* an exception no handler catches (list.remove raising ValueError): the
\* request fails with none of the HTTPExceptions the handlers raise
UnhandledError ==
    [status |-> 500, kind |-> "unhandled", payload |-> <<"ValueError">>]

\* `words` occurs in `text` as a run of consecutive words
ContainsWords(text, words) ==
    \E i \in 0..(Len(text) - Len(words)) :
        \A k \in 1..Len(words) : text[i + k] = words[k]

-----------------------------------------------------------------------------
(* The statements of the handlers, on a registry value `acts`              *)

\* `activity_name not in activities` negated (app.py:95, app.py:115)
ActivityExists(acts, activity_name) == activity_name \in DOMAIN acts

\* `email in activity["participants"]` (app.py:102, app.py:122)
IsParticipant(acts, activity_name, email) ==
    ListContains(acts[activity_name].participants, email)

\* one participants list object shared by all activities: an append through
\* one activity shows in every activity
AddStudentToSharedList(acts, activity_name, email) ==
    [n \in DOMAIN acts |->
        [acts[n] EXCEPT !.participants = ListAppend(@, email)]]

\* an append that also counts the capacity down, as if max_participants were
\* the number of free places
AddStudentAndTakePlace(acts, activity_name, email) ==
    [acts EXCEPT ![activity_name].participants = ListAppend(@, email),
                 ![activity_name].max_participants = @ - 1]

\* `activity["participants"].append(email)` (app.py:107): the list inside the
\* registry is changed in place, nothing else is
AddStudent(acts, activity_name, email) ==
    [acts EXCEPT ![activity_name].participants = ListAppend(@, email)]

\* `activity["participants"].pop(0)`: the oldest entry goes, whoever it is
RemoveOldestStudent(acts, activity_name, email) ==
    [acts EXCEPT ![activity_name].participants = Tail(@)]

\* `activity["participants"].remove(email)` (app.py:127)
RemoveStudent(acts, activity_name, email) ==
    [acts EXCEPT ![activity_name].participants = ListRemove(@, email)]

\* an unknown activity reported as a bad request
UnknownActivityAsBadRequest == HTTPException(400, <<"Unknown", "activity">>)

\* HTTPException(status_code=404, detail="Activity not found")
NotFound == HTTPException(404, <<"Activity", "not", "found">>)

\* HTTPException(status_code=400, detail="Student already signed up for this activity")
AlreadyRegistered ==
    HTTPException(400, <<"Student", "already", "signed", "up", "for", "this", "activity">>)

\* HTTPException(status_code=400, detail="Student is not signed up for this activity")
NotRegistered ==
    HTTPException(400, <<"Student", "is", "not", "signed", "up", "for", "this", "activity">>)

\* acknowledge the signup without storing the student
SignupAcknowledgeOnly(acts, activity_name, email) ==
    [activities |-> acts,
     response   |-> MessageResponse(<<"Signed", "up", email, "for", activity_name>>)]

\* app.py:106-108: add the student and acknowledge
SignupCommit(acts, activity_name, email) ==
    [activities |-> AddStudent(acts, activity_name, email),
     response   |-> MessageResponse(<<"Signed", "up", email, "for", activity_name>>)]

\* acknowledge the unregister and leave the student in the list
UnregisterAcknowledgeOnly(acts, activity_name, email) ==
    [activities |-> acts,
     response   |-> MessageResponse(<<"Unregistered", email, "from", activity_name>>)]

\* app.py:126-128: remove the student and acknowledge; list.remove raises
\* ValueError when the email is not in the list at that moment, which no
\* handler catches
UnregisterCommit(acts, activity_name, email) ==
    IF IsParticipant(acts, activity_name, email)
    THEN [activities |-> RemoveStudent(acts, activity_name, email),
          response   |-> MessageResponse(<<"Unregistered", email, "from", activity_name>>)]
    ELSE [activities |-> acts, response |-> UnhandledError]

-----------------------------------------------------------------------------
(* The handlers run without interruption: registry and response after      *)

\* a listing that leaves the participants out of every activity
get_activities_without_participants(acts) ==
    [activities |-> acts,
     response   |-> [status |-> 200, kind |-> "body",
                     payload |-> [n \in DOMAIN acts |->
                                    [acts[n] EXCEPT !.participants = << >>]]]]

\* app.py:86-88
get_activities(acts) ==
    [activities |-> acts,
     response   |-> [status |-> 200, kind |-> "body", payload |-> acts]]

\* a signup that skips the "already signed up" test of app.py:102
signup_without_duplicate_check(acts, activity_name, email) ==
    IF ~ActivityExists(acts, activity_name)
    THEN [activities |-> acts, response |-> NotFound]
    ELSE SignupCommit(acts, activity_name, email)

\* a signup that refuses a new student once the activity has
\* max_participants participants
signup_with_capacity_check(acts, activity_name, email) ==
    IF ~ActivityExists(acts, activity_name)
    THEN [activities |-> acts, response |-> NotFound]
    ELSE IF IsParticipant(acts, activity_name, email)
    THEN [activities |-> acts, response |-> AlreadyRegistered]
    ELSE IF Len(acts[activity_name].participants) >= acts[activity_name].max_participants
    THEN [activities |-> acts,
          response |-> HTTPException(400, <<"Activity", "is", "full">>)]
    ELSE SignupCommit(acts, activity_name, email)

\* a signup whose duplicate test looks through every activity's list, so a
\* student can be in one activity only
signup_one_activity_per_student(acts, activity_name, email) ==
    IF ~ActivityExists(acts, activity_name)
    THEN [activities |-> acts, response |-> NotFound]
    ELSE IF \E n \in DOMAIN acts : IsParticipant(acts, n, email)
    THEN [activities |-> acts, response |-> AlreadyRegistered]
    ELSE SignupCommit(acts, activity_name, email)

\* app.py:91-108
signup_for_activity(acts, activity_name, email) ==
    IF ~ActivityExists(acts, activity_name)
    THEN [activities |-> acts, response |-> NotFound]
    ELSE IF IsParticipant(acts, activity_name, email)
    THEN [activities |-> acts, response |-> AlreadyRegistered]
    ELSE SignupCommit(acts, activity_name, email)

\* an unregister whose membership test looks through every activity's list
\* instead of the list of the activity named in the request
unregister_checks_every_activity(acts, activity_name, email) ==
    IF ~ActivityExists(acts, activity_name)
    THEN [activities |-> acts, response |-> NotFound]
    ELSE IF ~\E n \in DOMAIN acts : IsParticipant(acts, n, email)
    THEN [activities |-> acts, response |-> NotRegistered]
    ELSE UnregisterCommit(acts, activity_name, email)

\* an unregister that skips the "not signed up" test of app.py:122
unregister_without_membership_check(acts, activity_name, email) ==
    IF ~ActivityExists(acts, activity_name)
    THEN [activities |-> acts, response |-> NotFound]
    ELSE UnregisterCommit(acts, activity_name, email)

\* app.py:111-128
unregister_from_activity(acts, activity_name, email) ==
    IF ~ActivityExists(acts, activity_name)
    THEN [activities |-> acts, response |-> NotFound]
    ELSE IF ~IsParticipant(acts, activity_name, email)
    THEN [activities |-> acts, response |-> NotRegistered]
    ELSE UnregisterCommit(acts, activity_name, email)

-----------------------------------------------------------------------------
(* Initial state: the module has been imported, no request served yet      *)

\* seed data in which Debate Club lists isabella twice
InitWithRepeatedSeedEntry ==
    /\ activities =
          [SeedActivities EXCEPT !["Debate Club"].participants =
              <<"isabella@mergington.edu", "lucas@mergington.edu",
                "isabella@mergington.edu">>]
    /\ history = << >>
    /\ pc = [t \in Threads |-> "idle"]
    /\ req = [t \in Threads |-> [op |-> NoArg, activity_name |-> NoArg, email |-> NoArg]]
    /\ resp = [t \in Threads |-> [status |-> 0, kind |-> NoArg, payload |-> << >>]]
    /\ fixture = NoFixture

Init ==
    /\ activities = SeedActivities
    /\ history = << >>
    /\ pc = [t \in Threads |-> "idle"]
    /\ req = [t \in Threads |-> [op |-> NoArg, activity_name |-> NoArg, email |-> NoArg]]
    /\ resp = [t \in Threads |-> [status |-> 0, kind |-> NoArg, payload |-> << >>]]
    /\ fixture = NoFixture

-----------------------------------------------------------------------------
(* Spec: one call at a time                                                *)

\* one entry of the history: the call, the registry it found, its response
Call(op, activity_name, email, before, response) ==
    [op |-> op, activity_name |-> activity_name, email |-> email,
     before |-> before, response |-> response]

\* GET /activities
List ==
    /\ Len(history) < MaxCalls
    /\ LET r == get_activities(activities)
       IN  /\ activities' = r.activities
           /\ history' = Append(history, Call("list", NoArg, NoArg, activities, r.response))
    /\ UNCHANGED <<pc, req, resp, fixture>>

\* POST /activities/{activity_name}/signup?email=...
Signup(activity_name, email) ==
    /\ Len(history) < MaxCalls
    /\ LET r == signup_for_activity(activities, activity_name, email)
       IN  /\ activities' = r.activities
           /\ history' = Append(history,
                  Call("signup", activity_name, email, activities, r.response))
    /\ UNCHANGED <<pc, req, resp, fixture>>

\* POST /activities/{activity_name}/unregister?email=...
Unregister(activity_name, email) ==
    /\ Len(history) < MaxCalls
    /\ LET r == unregister_from_activity(activities, activity_name, email)
       IN  /\ activities' = r.activities
           /\ history' = Append(history,
                  Call("unregister", activity_name, email, activities, r.response))
    /\ UNCHANGED <<pc, req, resp, fixture>>

Next ==
    \/ List
    \/ \E n \in Names, e \in Emails : Signup(n, e)
    \/ \E n \in Names, e \in Emails : Unregister(n, e)

Spec == Init /\ [][Next]_vars

-----------------------------------------------------------------------------
(* CapacitySpec: the same calls, made after enough students have signed up *)
(* for Basketball Club to bring it to its max_participants, or to one      *)
(* place short of it.                                                      *)

\* the emails of the students who signed up earlier
EarlierStudents ==
    <<"student01@mergington.edu", "student02@mergington.edu",
      "student03@mergington.edu", "student04@mergington.edu",
      "student05@mergington.edu", "student06@mergington.edu",
      "student07@mergington.edu", "student08@mergington.edu",
      "student09@mergington.edu", "student10@mergington.edu",
      "student11@mergington.edu", "student12@mergington.edu",
      "student13@mergington.edu", "student14@mergington.edu">>

\* the registry after signup_for_activity(activity_name, e) has been called
\* for each e of `emails`, in order
RECURSIVE SignUpAll(_, _, _)
SignUpAll(acts, activity_name, emails) ==
    IF emails = << >>
    THEN acts
    ELSE SignUpAll(signup_for_activity(acts, activity_name, Head(emails)).activities,
                   activity_name, Tail(emails))

\* the places Basketball Club has left in the seed data (app.py:27-28)
FreePlaces ==
    SeedActivities["Basketball Club"].max_participants
        - Len(SeedActivities["Basketball Club"].participants)

CapacityInit ==
    /\ \E k \in {FreePlaces - 1, FreePlaces} :
          activities = SignUpAll(SeedActivities, "Basketball Club",
                                 SubSeq(EarlierStudents, 1, k))
    /\ history = << >>
    /\ pc = [t \in Threads |-> "idle"]
    /\ req = [t \in Threads |-> [op |-> NoArg, activity_name |-> NoArg, email |-> NoArg]]
    /\ resp = [t \in Threads |-> [status |-> 0, kind |-> NoArg, payload |-> << >>]]
    /\ fixture = NoFixture

CapacitySpec == CapacityInit /\ [][Next]_vars

-----------------------------------------------------------------------------
(* ConcSpec: worker threads.  A worker takes one request and runs its      *)
(* handler statement by statement; between two statements any other worker *)
(* may run.  Each membership test, append and remove is one step (one call *)
(* into the list object).                                                  *)

Request(op, activity_name, email) ==
    [op |-> op, activity_name |-> activity_name, email |-> email]

\* the handler is entered with its arguments bound (app.py:92, app.py:112)
Receive(t, op, activity_name, email) ==
    /\ pc[t] = "idle"
    /\ req' = [req EXCEPT ![t] = Request(op, activity_name, email)]
    /\ pc' = [pc EXCEPT ![t] = "validate_activity"]
    /\ UNCHANGED <<activities, history, resp, fixture>>

\* app.py:95-99, app.py:115-119
ValidateActivity(t) ==
    /\ pc[t] = "validate_activity"
    /\ IF ~ActivityExists(activities, req[t].activity_name)
       THEN /\ resp' = [resp EXCEPT ![t] = NotFound]
            /\ pc' = [pc EXCEPT ![t] = "done"]
       ELSE /\ pc' = [pc EXCEPT ![t] = "validate_student"]
            /\ UNCHANGED resp
    /\ UNCHANGED <<activities, history, req, fixture>>

\* app.py:102-104, app.py:122-124
ValidateStudent(t) ==
    /\ pc[t] = "validate_student"
    /\ LET present == IsParticipant(activities, req[t].activity_name, req[t].email)
           refused == IF req[t].op = "signup" THEN present ELSE ~present
       IN  IF refused
           THEN /\ resp' = [resp EXCEPT ![t] =
                       IF req[t].op = "signup" THEN AlreadyRegistered ELSE NotRegistered]
                /\ pc' = [pc EXCEPT ![t] = "done"]
           ELSE /\ pc' = [pc EXCEPT ![t] = "commit"]
                /\ UNCHANGED resp
    /\ UNCHANGED <<activities, history, req, fixture>>

\* app.py:107-108, app.py:127-128
Commit(t) ==
    /\ pc[t] = "commit"
    /\ LET r == IF req[t].op = "signup"
                THEN SignupCommit(activities, req[t].activity_name, req[t].email)
                ELSE UnregisterCommit(activities, req[t].activity_name, req[t].email)
       IN  /\ activities' = r.activities
           /\ resp' = [resp EXCEPT ![t] = r.response]
    /\ pc' = [pc EXCEPT ![t] = "done"]
    /\ UNCHANGED <<history, req, fixture>>

ConcNext ==
    \/ \E t \in Threads, op \in {"signup", "unregister"}, n \in Names, e \in Emails :
           Receive(t, op, n, e)
    \/ \E t \in Threads : ValidateActivity(t)
    \/ \E t \in Threads : ValidateStudent(t)
    \/ \E t \in Threads : Commit(t)

ConcSpec == Init /\ [][ConcNext]_vars

\* the workers that have returned a response
Finished == {t \in Threads : pc[t] = "done"}

\* no worker is inside a handler
Quiescent == \A t \in Threads : pc[t] \in {"idle", "done"}

\* the handler of a request, run without interruption
RunHandler(acts, r) ==
    IF r.op = "signup"
    THEN signup_for_activity(acts, r.activity_name, r.email)
    ELSE unregister_from_activity(acts, r.activity_name, r.email)

\* the requests of the workers `order` run one after the other from `acts`:
\* the final registry and each worker's response, in that order
RECURSIVE SerialRun(_, _)
SerialRun(acts, order) ==
    IF order = << >>
    THEN [activities |-> acts, responses |-> << >>]
    ELSE LET r    == RunHandler(acts, req[Head(order)])
             rest == SerialRun(r.activities, Tail(order))
         IN  [activities |-> rest.activities,
              responses  |-> <<r.response>> \o rest.responses]

\* every order in which the finished workers could have run serially
SerialOrders ==
    {o \in [1..Cardinality(Finished) -> Finished] :
        \A i, j \in 1..Cardinality(Finished) : o[i] = o[j] => i = j}

-----------------------------------------------------------------------------
(* Vocabulary of the properties                                            *)

\* how many times x occurs in lst
Occurrences(lst, x) == Cardinality({i \in 1..Len(lst) : lst[i] = x})

\* no value occurs at two different indices of lst
NoDuplicates(lst) ==
    \A i, j \in 1..Len(lst) : i # j => lst[i] # lst[j]

\* the registry as call number i of the history left it
After(i) == IF i < Len(history) THEN history[i + 1].before ELSE activities

\* call number i of the history is op(activity_name, email)
IsCall(i, op, activity_name, email) ==
    /\ history[i].op = op
    /\ history[i].activity_name = activity_name
    /\ history[i].email = email

\* call number i of the history returned 200
Succeeded(i) == history[i].response.status = 200

\* call number i of the history failed with the HTTPException `exc`
FailedWith(i, exc) ==
    /\ history[i].response.kind = "detail"
    /\ history[i].response.status = exc.status
    /\ history[i].response.payload = exc.payload

-----------------------------------------------------------------------------
\* C1: starting from the seed state, after any sequence of signup and
\* unregister calls made one after the other (any names, any emails,
\* successful or failing), no activity's participants list holds the same
\* email at two different indices.
UniquenessInvariant ==
    \A n \in DOMAIN activities : NoDuplicates(activities[n].participants)

\* a history in which a signup succeeded and the same signup, repeated later,
\* was refused, and an unregister succeeded too
UniquenessWitness ==
    \E i, j, k \in 1..Len(history) :
        /\ i < j
        /\ history[i].op = "signup" /\ Succeeded(i)
        /\ IsCall(j, "signup", history[i].activity_name, history[i].email)
        /\ FailedWith(j, AlreadyRegistered)
        /\ history[k].op = "unregister" /\ Succeeded(k)

-----------------------------------------------------------------------------
\* C2: two signup calls for the same email on the same activity that run
\* concurrently (no other request being served) cannot both succeed, and the
\* email ends up in the participants list at most once.
ConcurrentSignupsExclusive ==
    \A t1, t2 \in Threads :
        ( /\ t1 # t2
          /\ pc[t1] = "done" /\ pc[t2] = "done"
          /\ \A t \in Threads \ {t1, t2} : pc[t] = "idle"
          /\ req[t1].op = "signup" /\ req[t2] = req[t1]
          /\ ActivityExists(activities, req[t1].activity_name) )
        => /\ ~(resp[t1].status = 200 /\ resp[t2].status = 200)
           /\ Occurrences(activities[req[t1].activity_name].participants,
                          req[t1].email) <= 1

-----------------------------------------------------------------------------
\* C3: check and mutation of a call take effect as one atomic step: whenever
\* no request is in progress, the responses returned and the registry equal
\* those of some serial execution of the same calls from the seed state.
Serializable ==
    Quiescent =>
        \E o \in SerialOrders :
            LET s == SerialRun(SeedActivities, o)
            IN  /\ s.activities = activities
                /\ \A i \in 1..Len(o) : s.responses[i] = resp[o[i]]

-----------------------------------------------------------------------------
\* C4: every signup or unregister request ends in success or in exactly one
\* of NotFound, AlreadyRegistered, NotRegistered; no other failure is
\* reachable.
OnlyDeclaredOutcomes ==
    \A t \in Finished :
        \/ resp[t].status = 200 /\ resp[t].kind = "message"
        \/ resp[t] \in {NotFound, AlreadyRegistered, NotRegistered}

-----------------------------------------------------------------------------
\* C5: round trip.  For a known activity a and an email e not in a's
\* participants, signup(a, e) followed immediately by unregister(a, e) both
\* succeed and leave the whole registry as it was before the signup (a's list
\* with the same emails in the same order, every other activity unchanged);
\* a list() that follows returns exactly that registry.
RoundTrip ==
    \A i \in 1..(Len(history) - 1) :
        LET a == history[i].activity_name
            e == history[i].email
            pre == history[i].before
        IN  ( /\ history[i].op = "signup"
              /\ a \in DOMAIN pre
              /\ Occurrences(pre[a].participants, e) = 0
              /\ IsCall(i + 1, "unregister", a, e) )
            => /\ Succeeded(i)
               /\ Succeeded(i + 1)
               /\ After(i + 1) = pre
               /\ (i + 2 <= Len(history) /\ history[i + 2].op = "list")
                    => /\ Succeeded(i + 2)
                       /\ history[i + 2].response.payload = pre

\* signup, unregister, list in a row for an email new to a non-empty activity
RoundTripWitness ==
    \E i \in 1..(Len(history) - 2) :
        /\ history[i].op = "signup" /\ Succeeded(i)
        /\ Len(history[i].before[history[i].activity_name].participants) > 0
        /\ IsCall(i + 1, "unregister", history[i].activity_name, history[i].email)
        /\ history[i + 2].op = "list"

-----------------------------------------------------------------------------
\* C6: for a known activity a and an email e not in a's participants,
\* signup(a, e) twice in a row succeeds the first time and fails with
\* AlreadyRegistered (status 400) the second time, and the second call leaves
\* the registry as the first call left it.
DuplicateSignupRejected ==
    \A i \in 1..(Len(history) - 1) :
        LET a == history[i].activity_name
            e == history[i].email
            pre == history[i].before
        IN  ( /\ history[i].op = "signup"
              /\ a \in DOMAIN pre
              /\ Occurrences(pre[a].participants, e) = 0
              /\ IsCall(i + 1, "signup", a, e) )
            => /\ Succeeded(i)
               /\ FailedWith(i + 1, AlreadyRegistered)
               /\ history[i + 1].response.status = 400
               /\ ContainsWords(history[i + 1].response.payload,
                                <<"already", "signed", "up">>)
               /\ After(i + 1) = After(i)

\* the same signup twice in a row, the first one accepted
DuplicateSignupWitness ==
    \E i \in 1..(Len(history) - 1) :
        /\ history[i].op = "signup" /\ Succeeded(i)
        /\ IsCall(i + 1, "signup", history[i].activity_name, history[i].email)

-----------------------------------------------------------------------------
\* C7: for a known activity a and an email e in a's participants,
\* unregister(a, e) twice in a row succeeds the first time and fails with
\* NotRegistered (status 400) the second time, and the second call leaves the
\* registry as the first call left it.
DuplicateUnregisterRejected ==
    \A i \in 1..(Len(history) - 1) :
        LET a == history[i].activity_name
            e == history[i].email
            pre == history[i].before
        IN  ( /\ history[i].op = "unregister"
              /\ a \in DOMAIN pre
              /\ Occurrences(pre[a].participants, e) > 0
              /\ IsCall(i + 1, "unregister", a, e) )
            => /\ Succeeded(i)
               /\ FailedWith(i + 1, NotRegistered)
               /\ history[i + 1].response.status = 400
               /\ ContainsWords(history[i + 1].response.payload,
                                <<"not", "signed", "up">>)
               /\ After(i + 1) = After(i)

\* the same unregister twice in a row, the first one accepted
DuplicateUnregisterWitness ==
    \E i \in 1..(Len(history) - 1) :
        /\ history[i].op = "unregister" /\ Succeeded(i)
        /\ IsCall(i + 1, "unregister", history[i].activity_name, history[i].email)

-----------------------------------------------------------------------------
\* C8: a signup(a1, e) or unregister(a1, e) call, successful or not, leaves
\* the participants list of every activity other than a1 unchanged.
IsolationAcrossActivities ==
    \A i \in 1..Len(history) :
        history[i].op \in {"signup", "unregister"} =>
            \A a2 \in DOMAIN history[i].before \ {history[i].activity_name} :
                /\ a2 \in DOMAIN After(i)
                /\ After(i)[a2].participants = history[i].before[a2].participants

\* a history with an accepted signup, an accepted unregister and a refused call
IsolationWitness ==
    \E i, j, k \in 1..Len(history) :
        /\ history[i].op = "signup" /\ Succeeded(i)
        /\ history[j].op = "unregister" /\ Succeeded(j)
        /\ history[k].op \in {"signup", "unregister"} /\ ~Succeeded(k)

-----------------------------------------------------------------------------
\* C9: a signup or unregister call whose activity_name is not a key of the
\* registry fails with NotFound (status 404, detail containing "not found")
\* whatever the email, and leaves the whole registry unchanged.
UnknownActivityNotFound ==
    \A i \in 1..Len(history) :
        ( /\ history[i].op \in {"signup", "unregister"}
          /\ history[i].activity_name \notin DOMAIN history[i].before )
        => /\ history[i].response.status = 404
           /\ history[i].response.kind = "detail"
           /\ ContainsWords(history[i].response.payload, <<"not", "found">>)
           /\ After(i) = history[i].before
           /\ history[i].activity_name \notin DOMAIN After(i)

\* both operations were called on an unknown activity, after the registry
\* had already changed
UnknownActivityWitness ==
    \E i, j \in 2..Len(history) :
        /\ history[i].op = "signup"
        /\ history[j].op = "unregister"
        /\ history[i].activity_name \notin DOMAIN history[i].before
        /\ history[j].activity_name \notin DOMAIN history[j].before
        /\ history[i].before # SeedActivities

-----------------------------------------------------------------------------
\* C10: when signup(a, e) succeeds, a's new participants list is the old list
\* with e appended as its last element (one longer, earlier entries keep
\* their values and positions), and every later list() shows e in a's
\* participants until e is unregistered from a.
SignupAppends ==
    \A i \in 1..Len(history) :
        (history[i].op = "signup" /\ Succeeded(i)) =>
            LET a == history[i].activity_name
                e == history[i].email
                old == history[i].before[a].participants
                new == After(i)[a].participants
            IN  /\ Len(new) = Len(old) + 1
                /\ new[Len(new)] = e
                /\ \A k \in 1..Len(old) : new[k] = old[k]
                /\ \A j \in (i + 1)..Len(history) :
                      ( /\ history[j].op = "list"
                        /\ ~\E u \in (i + 1)..(j - 1) :
                               IsCall(u, "unregister", a, e) /\ Succeeded(u) )
                      => Occurrences(history[j].response.payload[a].participants, e) > 0

\* an accepted signup to a non-empty activity, another call, then a list
SignupAppendsWitness ==
    \E i \in 1..Len(history) :
        /\ history[i].op = "signup" /\ Succeeded(i)
        /\ Len(history[i].before[history[i].activity_name].participants) > 0
        /\ i + 2 <= Len(history)
        /\ history[i + 1].op # "list"
        /\ history[i + 2].op = "list"

-----------------------------------------------------------------------------
\* C11: when unregister(a, e) succeeds, a's new participants list is the old
\* list with exactly one entry removed, namely e: it is one shorter, e occurs
\* nowhere in it, and every other email remains in the same relative order.
UnregisterRemoves ==
    \A i \in 1..Len(history) :
        (history[i].op = "unregister" /\ Succeeded(i)) =>
            LET a == history[i].activity_name
                e == history[i].email
                old == history[i].before[a].participants
                new == After(i)[a].participants
            IN  /\ Len(new) = Len(old) - 1
                /\ Occurrences(new, e) = 0
                /\ \E k \in 1..Len(old) :
                      /\ old[k] = e
                      /\ \A m \in 1..(k - 1) : new[m] = old[m]
                      /\ \A m \in k..Len(new) : new[m] = old[m + 1]

\* an accepted unregister of an email that was not the last entry of its list
UnregisterRemovesWitness ==
    \E i \in 1..Len(history) :
        /\ history[i].op = "unregister" /\ Succeeded(i)
        /\ LET old == history[i].before[history[i].activity_name].participants
           IN  Len(old) >= 2 /\ old[Len(old)] # history[i].email

-----------------------------------------------------------------------------
\* C12: for a known activity a, signup(a, e) fails with AlreadyRegistered
\* (400, "already signed up") if and only if e is in a's participants, and
\* unregister(a, e) fails with NotRegistered (400, "not signed up") if and
\* only if e is not in a's participants; both failures leave the registry
\* unchanged.
MembershipGuardsExact ==
    \A i \in 1..Len(history) :
        LET a == history[i].activity_name
            e == history[i].email
            pre == history[i].before
            r == history[i].response
            refused(words) ==
                r.status = 400 /\ r.kind = "detail" /\ ContainsWords(r.payload, words)
        IN  (history[i].op \in {"signup", "unregister"} /\ a \in DOMAIN pre) =>
              /\ history[i].op = "signup" =>
                    /\ refused(<<"already", "signed", "up">>)
                          <=> Occurrences(pre[a].participants, e) > 0
                    /\ refused(<<"already", "signed", "up">>) => After(i) = pre
              /\ history[i].op = "unregister" =>
                    /\ refused(<<"not", "signed", "up">>)
                          <=> Occurrences(pre[a].participants, e) = 0
                    /\ refused(<<"not", "signed", "up">>) => After(i) = pre

\* a history with a refused signup, an accepted call and a refused unregister
\* of an email that is registered for some activity
MembershipGuardsWitness ==
    \E i, j, k \in 1..Len(history) :
        /\ history[i].op = "signup" /\ history[i].response.status = 400
        /\ history[j].op = "unregister" /\ history[j].response.status = 400
        /\ \E n \in DOMAIN history[j].before :
              Occurrences(history[j].before[n].participants, history[j].email) > 0
        /\ history[k].op \in {"signup", "unregister"} /\ Succeeded(k)

-----------------------------------------------------------------------------
\* C13: after any sequence of list, signup and unregister calls, successful
\* or failing, the registry has exactly the activity names it had at
\* initialization and each activity's description, schedule and
\* max_participants are unchanged; only participants lists change.
ActivitiesFixed ==
    /\ DOMAIN activities = DOMAIN SeedActivities
    /\ \A n \in DOMAIN SeedActivities :
          /\ DOMAIN activities[n] =
                {"description", "schedule", "max_participants", "participants"}
          /\ activities[n].description = SeedActivities[n].description
          /\ activities[n].schedule = SeedActivities[n].schedule
          /\ activities[n].max_participants = SeedActivities[n].max_participants

\* a history with a list, an accepted signup or unregister and a refused
\* call, after which some participants list differs from its seed
ActivitiesFixedWitness ==
    /\ \E i, j, k \in 1..Len(history) :
          /\ history[i].op = "list"
          /\ history[j].op \in {"signup", "unregister"} /\ Succeeded(j)
          /\ history[k].op \in {"signup", "unregister"} /\ ~Succeeded(k)
    /\ \E n \in DOMAIN SeedActivities :
          activities[n].participants # SeedActivities[n].participants

-----------------------------------------------------------------------------
\* C14: list() has no side effects and no error outcome: every call of it
\* succeeds, returns every activity with its description, schedule,
\* max_participants and current participants list, and leaves the registry
\* unchanged.
ListIsPure ==
    \A i \in 1..Len(history) :
        history[i].op = "list" =>
            LET pre == history[i].before
                r == history[i].response
            IN  /\ r.status = 200
                /\ r.kind = "body"
                /\ After(i) = pre
                /\ DOMAIN r.payload = DOMAIN pre
                /\ \A n \in DOMAIN pre :
                      /\ r.payload[n].description = pre[n].description
                      /\ r.payload[n].schedule = pre[n].schedule
                      /\ r.payload[n].max_participants = pre[n].max_participants
                      /\ r.payload[n].participants = pre[n].participants

\* a list() served after signups and unregisters have changed the registry,
\* and followed by another call
ListIsPureWitness ==
    \E i \in 1..(Len(history) - 1) :
        /\ history[i].op = "list"
        /\ history[i].before # SeedActivities

-----------------------------------------------------------------------------
\* C15: capacity is never enforced: signup(a, e) for a known activity a and
\* an email e not in its participants succeeds and appends e however the
\* participant count compares with max_participants, so an activity with
\* more participants than max_participants is reachable.
CapacityNotEnforced ==
    \A i \in 1..Len(history) :
        LET a == history[i].activity_name
            e == history[i].email
            pre == history[i].before
        IN  ( /\ history[i].op = "signup"
              /\ a \in DOMAIN pre
              /\ Occurrences(pre[a].participants, e) = 0 )
            => /\ Succeeded(i)
               /\ After(i)[a].participants = Append(pre[a].participants, e)

\* a signup was accepted by an activity that already had max_participants
\* participants, which now has more than that
OverCapacityReached ==
    \E i \in 1..Len(history) :
        LET a == history[i].activity_name
        IN  /\ history[i].op = "signup" /\ Succeeded(i)
            /\ Len(history[i].before[a].participants)
                  >= history[i].before[a].max_participants
            /\ Len(activities[a].participants) > activities[a].max_participants

-----------------------------------------------------------------------------
\* C16: before any signup or unregister, list() returns exactly nine
\* activities, Basketball Club's participants are exactly
\* [alex@mergington.edu], Debate Club's are exactly
\* [isabella@mergington.edu, lucas@mergington.edu], and every seeded
\* participants list is duplicate-free.
InitialListing ==
    \A i \in 1..Len(history) :
        (\A j \in 1..i : history[j].op = "list") =>
            LET listed == history[i].response.payload
            IN  /\ Succeeded(i)
                /\ Cardinality(DOMAIN listed) = 9
                /\ {"Basketball Club", "Debate Club"} \subseteq DOMAIN listed
                /\ listed["Basketball Club"].participants = <<"alex@mergington.edu">>
                /\ listed["Debate Club"].participants =
                      <<"isabella@mergington.edu", "lucas@mergington.edu">>
                /\ \A n \in DOMAIN listed : NoDuplicates(listed[n].participants)

\* list() was called twice with no signup or unregister before it
InitialListingWitness ==
    /\ Len(history) >= 2
    /\ history[1].op = "list"
    /\ history[2].op = "list"

-----------------------------------------------------------------------------
\* C17: after a successful unregister(a, e), a following signup(a, e) with no
\* other call on (a, e) in between succeeds and e is again in a's
\* participants: an earlier registration leaves nothing that blocks a later
\* one.
ReRegistration ==
    \A i, j \in 1..Len(history) :
        LET a == history[i].activity_name
            e == history[i].email
        IN  ( /\ i < j
              /\ history[i].op = "unregister" /\ Succeeded(i)
              /\ IsCall(j, "signup", a, e)
              /\ \A u \in (i + 1)..(j - 1) :
                    ~(history[u].activity_name = a /\ history[u].email = e) )
            => /\ Succeeded(j)
               /\ Occurrences(After(j)[a].participants, e) > 0

\* an accepted unregister, a call on something else, then the signup again
ReRegistrationWitness ==
    \E i \in 1..(Len(history) - 2) :
        /\ history[i].op = "unregister" /\ Succeeded(i)
        /\ ~(history[i + 1].activity_name = history[i].activity_name
               /\ history[i + 1].email = history[i].email)
        /\ history[i + 1].op # "list"
        /\ IsCall(i + 2, "signup", history[i].activity_name, history[i].email)

-----------------------------------------------------------------------------
\* C18: the duplicate check is per activity: signup(a, e) on a known activity
\* succeeds exactly when e is not in a's own participants list, whatever the
\* other activities' lists hold; an email registered for other activities
\* can sign up for a and is then in the participants of several activities.
DuplicateCheckPerActivity ==
    \A i \in 1..Len(history) :
        LET a == history[i].activity_name
            e == history[i].email
            pre == history[i].before
            others == {n \in DOMAIN pre \ {a} : Occurrences(pre[n].participants, e) > 0}
        IN  (history[i].op = "signup" /\ a \in DOMAIN pre) =>
              /\ Succeeded(i) <=> Occurrences(pre[a].participants, e) = 0
              /\ Succeeded(i) =>
                    \A n \in others \cup {a} :
                        Occurrences(After(i)[n].participants, e) = 1

\* an email registered for one activity signed up for another and is now in
\* both
DuplicateCheckPerActivityWitness ==
    \E i \in 1..Len(history) :
        /\ history[i].op = "signup" /\ Succeeded(i)
        /\ \E n \in DOMAIN history[i].before \ {history[i].activity_name} :
              Occurrences(history[i].before[n].participants, history[i].email) > 0
        /\ Cardinality({n \in DOMAIN activities :
              Occurrences(activities[n].participants, history[i].email) > 0}) >= 2

-----------------------------------------------------------------------------
(* Vocabulary of C19                                                       *)

\* how many of the first k calls were a successful op(a, e)
SuccessCount(op, a, e, k) ==
    Cardinality({i \in 1..k : IsCall(i, op, a, e) /\ Succeeded(i)})

\* call number i is a successful signup or unregister
ChangesMembership(i) ==
    history[i].op \in {"signup", "unregister"} /\ Succeeded(i)

\* calls number i and j are about the same pair (activity, email)
SamePair(i, j) ==
    /\ history[i].activity_name = history[j].activity_name
    /\ history[i].email = history[j].email

\* 1 if e is in a's seeded participants, 0 otherwise
SeedMembership(a, e) ==
    IF Occurrences(SeedActivities[a].participants, e) > 0 THEN 1 ELSE 0

\* the entries of a list
Entries(lst) == {lst[i] : i \in 1..Len(lst)}

\* the emails that a's seed list, a's current list or a call on a mentions;
\* for any other email e, e is not in a's list and no call on (a, e) was made
EmailsAbout(a) ==
    Entries(SeedActivities[a].participants)
        \cup Entries(activities[a].participants)
        \cup {history[i].email : i \in {u \in 1..Len(history) : history[u].activity_name = a}}

\* C19: for every pair (activity a, email e), in any history of calls made one
\* after the other, the successful signups and the successful unregisters of
\* (a, e) strictly alternate, starting with an unregister if e is seeded in a
\* and with a signup otherwise; and at every point (in every reachable state)
\* e is in a's participants exactly when seed membership + successful
\* signups - successful unregisters of (a, e) equals 1.
AlternationAndCount ==
    /\ \A a \in DOMAIN SeedActivities : \A e \in EmailsAbout(a) :
          (Occurrences(activities[a].participants, e) > 0)
            <=> ( SeedMembership(a, e)
                    + SuccessCount("signup", a, e, Len(history))
                    - SuccessCount("unregister", a, e, Len(history)) = 1 )
    /\ \A i, j \in 1..Len(history) :
          ( /\ i < j
            /\ ChangesMembership(i) /\ ChangesMembership(j) /\ SamePair(i, j)
            /\ \A u \in (i + 1)..(j - 1) : ~(ChangesMembership(u) /\ SamePair(i, u)) )
          => history[i].op # history[j].op
    /\ \A i \in 1..Len(history) :
          ( /\ ChangesMembership(i)
            /\ \A u \in 1..(i - 1) : ~(ChangesMembership(u) /\ SamePair(i, u)) )
          => history[i].op =
                (IF SeedMembership(history[i].activity_name, history[i].email) = 1
                 THEN "unregister" ELSE "signup")

\* three successful calls on one pair (a, e), for a seeded e: unregister,
\* signup, unregister
AlternationWitness ==
    \E a \in DOMAIN SeedActivities : \E e \in EmailsAbout(a) :
        /\ SeedMembership(a, e) = 1
        /\ SuccessCount("unregister", a, e, Len(history)) = 2
        /\ SuccessCount("signup", a, e, Len(history)) = 1

-----------------------------------------------------------------------------
\* C20: when several unregister calls for the same email on the same activity
\* run concurrently (and nothing else does), at most one of them succeeds and
\* each of the others fails with NotRegistered; the participants list loses
\* that email exactly once and no other entry.
ConcurrentUnregistersExclusive ==
    \A t1 \in Finished :
        LET a == req[t1].activity_name
            e == req[t1].email
            accepted == {t \in Finished : resp[t].status = 200}
        IN  ( /\ Quiescent
              /\ Cardinality(Finished) >= 2
              /\ req[t1].op = "unregister"
              /\ a \in DOMAIN SeedActivities
              /\ \A t \in Finished : req[t] = req[t1] )
            => /\ Cardinality(accepted) <= 1
               /\ \A t \in Finished \ accepted :
                     /\ resp[t].status = 400
                     /\ resp[t].kind = "detail"
                     /\ ContainsWords(resp[t].payload, <<"not", "signed", "up">>)
               /\ activities[a].participants =
                     SelectSeq(SeedActivities[a].participants, LAMBDA x : x # e)
               /\ \A n \in DOMAIN SeedActivities \ {a} :
                     activities[n].participants = SeedActivities[n].participants

-----------------------------------------------------------------------------
(* FixtureSpec: one test after the other, each wrapped in the autouse      *)
(* fixture reset_activities (src/tests/conftest.py:19-88).  The registry   *)
(* is a dict of dicts: dict.update binds each key of the registry to the   *)
(* very value object of the other dict, so a change made in place through  *)
(* one of them is seen through the other.                                  *)

\* the dict literal bound to original_activities (conftest.py:23-78); it is
\* built anew each time the fixture is entered and repeats app.py:23-78
\* entry for entry
original_activities_literal == SeedActivities

\* `d.clear()`
DictClear(d) == [k \in {} |-> d[k]]

\* `d.update(other)`: every key of other is bound to other's value
DictUpdate(d, other) ==
    [k \in DOMAIN d \cup DOMAIN other |-> IF k \in DOMAIN other THEN other[k] ELSE d[k]]

\* the fixture after a handler has left the registry as `acts`: the handlers
\* change activities[name]["participants"] in place, and for a shared key
\* that list is the one original_activities[name] holds
SeenThroughSharedObjects(fix, acts) ==
    [fix EXCEPT !.original_activities =
        [k \in DOMAIN @ |-> IF k \in fix.shared /\ k \in DOMAIN acts THEN acts[k] ELSE @[k]]]

\* conftest.py:23-84: build original_activities, reset the registry to it,
\* hand over to the test
FixtureSetup ==
    /\ fixture.phase \in {"not_started", "finished"}
    /\ activities' = DictUpdate(DictClear(activities), original_activities_literal)
    /\ fixture' = [phase |-> "body",
                   original_activities |-> original_activities_literal,
                   shared |-> DOMAIN original_activities_literal]
    /\ history' = << >>
    /\ UNCHANGED <<pc, req, resp>>

\* a call made by the test body through the client: the handler runs on the
\* registry, and the fixture's dict sees what was changed in place
TestCall(op, activity_name, email, r) ==
    /\ fixture.phase = "body"
    /\ Len(history) < MaxCalls
    /\ activities' = r.activities
    /\ history' = Append(history, Call(op, activity_name, email, activities, r.response))
    /\ fixture' = SeenThroughSharedObjects(fixture, r.activities)
    /\ UNCHANGED <<pc, req, resp>>

TestList == TestCall("list", NoArg, NoArg, get_activities(activities))

TestSignup(activity_name, email) ==
    TestCall("signup", activity_name, email,
             signup_for_activity(activities, activity_name, email))

TestUnregister(activity_name, email) ==
    TestCall("unregister", activity_name, email,
             unregister_from_activity(activities, activity_name, email))

\* conftest.py:86-88: after the test, clear the registry and update it from
\* original_activities again
FixtureTeardown ==
    /\ fixture.phase = "body"
    /\ activities' = DictUpdate(DictClear(activities), fixture.original_activities)
    /\ fixture' = [fixture EXCEPT !.phase = "finished"]
    /\ UNCHANGED <<history, pc, req, resp>>

FixtureNext ==
    \/ FixtureSetup
    \/ TestList
    \/ \E n \in Names, e \in Emails : TestSignup(n, e)
    \/ \E n \in Names, e \in Emails : TestUnregister(n, e)
    \/ FixtureTeardown

FixtureSpec == Init /\ [][FixtureNext]_vars

-----------------------------------------------------------------------------
\* C21: the reset_activities fixture resets the registry to its initial state
\* before and after each test: when the fixture's setup has run the registry
\* equals the seed state, and after its teardown step the registry equals the
\* seed state again (every participants list equal to its seed list),
\* whatever signup/unregister calls the test body made.
FixtureResetsRegistry ==
    ( \/ fixture.phase = "finished"
      \/ fixture.phase = "body" /\ history = << >> )
    => /\ DOMAIN activities = DOMAIN SeedActivities
       /\ \A n \in DOMAIN SeedActivities :
             activities[n].participants = SeedActivities[n].participants

\* the setup step alone does reset the registry: a test always starts from
\* the seed state, whatever the test before it left behind
SetupResetsRegistry ==
    (fixture.phase = "body" /\ history = << >>) => activities = SeedActivities

====
